---- MODULE Spec2Model ----
(***************************************************************************)
(* The QuickJS script sandbox and its host/guest object bridge:            *)
(*   - DictProxy / DictProxyManager     (tools/quickjs/dict_proxy)         *)
(*   - QuickJSTool, single interpreter  (tools/quickjs/quickjs_tool.py)    *)
(*   - QuickJSTool, interpreter per thread                                 *)
(*                                      (tools/quickjs/quickjs_tool_thread) *)
(*   - console.* and callTool           (func_console.py, call_tool.py)    *)
(*                                                                         *)
(* Python strings are sequences of tokens, so that concatenation (\o) and  *)
(* equality of identifiers behave as in the code.  Python objects live in  *)
(* a heap indexed by address (id(obj)); a value is a tagged tuple.         *)
(***************************************************************************)
EXTENDS Integers, Sequences, FiniteSets, TLC

VARIABLES
    impl,       \* which QuickJSTool class the tool instance is: "plain" | "thread"
    heap,       \* address -> Python object (the host's mappings)
    mgr,        \* DictProxyManager: [proxies, reverse_ref]
    interp,     \* interpreter key -> quickjs.Context with its setup flags and globals
    uuids,      \* number of uuid4 values drawn so far
    inv,        \* the invocation that is evaluating, or NoInv
    held,       \* proxy ids the running script holds in local JS variables
    logs,       \* records written to the attached output sink
    seen,       \* nested reads of the running script: <<parent id, address, child id>>
    released,   \* names released by release_dict and not created again since
    owner,      \* handle id -> address of the mapping the host passed when creating it
    ops,        \* number of operations performed so far
    lastOp,     \* the operation that produced this state, with what it returned
    registry,   \* the tool registry: the names of the registered tools
    ct,         \* the last callTool(name, args) of a script, with its outcomes
    fd,         \* the last fill_default_args(schema, args), with its results
    ws,         \* the last run of a dynamic tool through the script wrapper
    rt,         \* the registry's lock and the threads inside registry operations
    cb,         \* the last proxy callback a script called, with what it returned
    sy          \* calls of the synchronous invoke: evaluations, exposures, queued jobs

vars == <<impl, heap, mgr, interp, uuids, inv, held, logs, seen, released, owner, ops, lastOp,
          registry, ct, fd, ws, rt, cb, sy>>

-----------------------------------------------------------------------------
(* Bounds *)

MaxOps == 5

-----------------------------------------------------------------------------
(* Values, strings and the heap *)

None == <<"none">>
Str(s) == <<"str", s>>
Ref(a) == <<"ref", a>>
IsRef(v) == v[1] = "ref"

\* a reference to a Python list; the list object is a sequence of values
ListRef(a) == <<"lref", a>>
IsListRef(v) == v[1] = "lref"

Nil == <<>>

Addrs == 1 .. 3
AddrTok == <<"1", "2", "3", "4">>
Keys == {"name", "a", "city"}
Threads == {"t1", "t2"}
ToolNames == {"toolA", "toolB"}
HostNames == {<<"user">>, <<"job">>}
GuestVals == {Str(<<"Bob">>)}

\* a Python dict: a function from its keys to values
EmptyDict == <<>>
DictSet(d, k, v) == (k :> v) @@ d
DictDel(d, k) == [x \in DOMAIN d \ {k} |-> d[x]]
DictGet(d, k) == IF k \in DOMAIN d THEN d[k] ELSE None

InitHeap ==
    (1 :> (("name" :> Str(<<"Alice">>)) @@ ("a" :> Ref(3))))
    @@ (2 :> ("name" :> Str(<<"Eve">>)))
    @@ (3 :> ("name" :> Str(<<"Carol">>)))

\* the mappings the host owns and may expose or pass as a context
HostMappings == {1, 2}

-----------------------------------------------------------------------------
(* DictProxy: one handle over one host mapping *)

\* a handle that backs itself with another mapping than the one it was given
DictProxy_detached(data, obj_id) == [data |-> 3, obj_id |-> obj_id, cache |-> EmptyDict]

\* DictProxy.__init__: the handle keeps the address of the mapping, not a copy
DictProxy(data, obj_id) == [data |-> data, obj_id |-> obj_id, cache |-> EmptyDict]

\* DictProxy._wrap_value: a nested dict becomes a child DictProxy whose id is
\* "<parent id>.child_<id(value)>"; the child is <<"proxy", child id, address>>
wrap_value(p, value) ==
    IF IsRef(value)
    THEN <<"proxy", p.obj_id \o <<".child_", AddrTok[value[2]]>>, value[2]>>
    ELSE value

\* DictProxy._unwrap_value on what the guest passes to _dictSet: a DictProxy gives
\* its mapping; a dict that has the key "__proxy_id" is returned as it is, and so
\* is a scalar (the scripts of this model pass no other dict)
unwrap_value(h, value) ==
    IF value[1] = "proxy" THEN Ref(value[3])
    ELSE IF IsRef(value) /\ "__proxy_id" \in DOMAIN h[value[2]] THEN value
         ELSE value

\* DictProxy._wrap_value of a list: a new list of the wrapped items
wrap_list(h, p, value) ==
    <<"list", [i \in DOMAIN h[value[2]] |-> wrap_value(p, h[value[2]][i])]>>

\* a get that wraps the value on every read and keeps no cache
DictProxy_get_uncached(h, p, key) ==
    LET value == DictGet(h[p.data], key)
    IN  [result |-> IF IsListRef(value) THEN wrap_list(h, p, value) ELSE wrap_value(p, value),
         proxy |-> p]

\* DictProxy.get: returns the wrapped value and the handle with its child cache;
\* for a dict or a list the cache key is id(value), and what was wrapped at the
\* first read of that object is returned from then on
DictProxy_get(h, p, key) ==
    LET value == DictGet(h[p.data], key)
    IN  IF IsRef(value) \/ IsListRef(value)
        THEN IF value[2] \in DOMAIN p.cache
             THEN [result |-> p.cache[value[2]], proxy |-> p]
             ELSE LET r == IF IsListRef(value) THEN wrap_list(h, p, value)
                                               ELSE wrap_value(p, value)
                  IN  [result |-> r, proxy |-> [p EXCEPT !.cache = DictSet(@, value[2], r)]]
        ELSE [result |-> wrap_value(p, value), proxy |-> p]

\* a copy-on-write handle: the write lands in a private copy, the host's mapping is untouched
DictProxy_set_copy(h, p, key, value) == h

\* a write that replaces the whole mapping by the one written key
DictProxy_set_clobber(h, p, key, value) ==
    [h EXCEPT ![p.data] = (key :> unwrap_value(h, value))]

\* DictProxy.set: self._data[key] = self._unwrap_value(value)
DictProxy_set(h, p, key, value) ==
    [h EXCEPT ![p.data] = DictSet(@, key, unwrap_value(h, value))]

\* DictProxy.delete
DictProxy_delete(h, p, key) ==
    IF key \in DOMAIN h[p.data]
    THEN [heap |-> [h EXCEPT ![p.data] = DictDel(@, key)], ret |-> TRUE]
    ELSE [heap |-> h, ret |-> FALSE]

-----------------------------------------------------------------------------
(* DictProxyManager: the registry of handles *)

UuidTok == <<"u1", "u2", "u3", "u4", "u5", "u6", "u7", "u8", "u9">>

NewManager == [proxies |-> EmptyDict, reverse_ref |-> EmptyDict]

\* DictProxyManager.create: a falsy name (None or "") draws "dict_<uuid>";
\* drawn counts the uuid4 values drawn so far
create(m, py_dict, name, drawn) ==
    LET obj_id == IF name # Nil THEN name ELSE <<"dict_", UuidTok[drawn + 1]>>
    IN  [mgr |-> [proxies |-> DictSet(m.proxies, obj_id, DictProxy(py_dict, obj_id)),
                  reverse_ref |-> DictSet(m.reverse_ref, py_dict, obj_id)],
         obj_id |-> obj_id,
         drawn |-> IF name # Nil THEN drawn ELSE drawn + 1]

\* a release that drops the reverse index only and leaves the handle registered
release_keep(m, obj_id) ==
    IF obj_id \in DOMAIN m.proxies
    THEN [mgr |-> [m EXCEPT !.reverse_ref = DictDel(@, m.proxies[obj_id].data)], ret |-> TRUE]
    ELSE [mgr |-> m, ret |-> FALSE]

\* DictProxyManager.release
release(m, obj_id) ==
    IF obj_id \in DOMAIN m.proxies
    THEN [mgr |-> [proxies |-> DictDel(m.proxies, obj_id),
                   reverse_ref |-> DictDel(m.reverse_ref, m.proxies[obj_id].data)],
          ret |-> TRUE]
    ELSE [mgr |-> m, ret |-> FALSE]

\* DictProxyManager.get(obj_id) is not None
has_proxy(m, obj_id) == obj_id \in DOMAIN m.proxies

-----------------------------------------------------------------------------
(* QuickJSTool: the callbacks the guest proxy calls *)

\* the sentinel string returned for a nested mapping
ProxyMarker(obj_id) == Str(<<"__PROXY:">> \o obj_id \o <<"__">>)

\* a getter that hands out the child id without entering the child in the registry
js_dict_get_unregistered(m, h, obj_id, key) ==
    IF ~has_proxy(m, obj_id)
    THEN [ret |-> None, mgr |-> m]
    ELSE LET g == DictProxy_get(h, m.proxies[obj_id], key)
             m1 == [m EXCEPT !.proxies[obj_id] = g.proxy]
         IN  IF g.result[1] = "proxy"
             THEN [ret |-> ProxyMarker(g.result[2]), mgr |-> m1]
             ELSE [ret |-> g.result, mgr |-> m1]

\* QuickJSTool._js_dict_get: a nested DictProxy is registered under its own id
\* unless that id is registered already, and the guest gets the sentinel
js_dict_get(m, h, obj_id, key) ==
    IF ~has_proxy(m, obj_id)
    THEN [ret |-> None, mgr |-> m]
    ELSE LET g == DictProxy_get(h, m.proxies[obj_id], key)
             m1 == [m EXCEPT !.proxies[obj_id] = g.proxy]
         IN  IF g.result[1] = "proxy"
             THEN LET cid == g.result[2]
                      m2 == IF has_proxy(m1, cid)
                            THEN m1
                            ELSE [m1 EXCEPT !.proxies =
                                     DictSet(@, cid, DictProxy(g.result[3], cid))]
                  IN  [ret |-> ProxyMarker(cid), mgr |-> m2]
             ELSE [ret |-> g.result, mgr |-> m1]

\* a set callback that stages the write instead of applying it to the mapping
js_dict_set_staged(m, h, obj_id, key, value) == h

\* QuickJSTool._js_dict_set
js_dict_set(m, h, obj_id, key, value) ==
    IF has_proxy(m, obj_id) THEN DictProxy_set(h, m.proxies[obj_id], key, value) ELSE h

\* a delete callback that reports success whether or not it removed a key
js_dict_delete_always(m, h, obj_id, key) ==
    IF has_proxy(m, obj_id)
    THEN [heap |-> DictProxy_delete(h, m.proxies[obj_id], key).heap, ret |-> TRUE]
    ELSE [heap |-> h, ret |-> TRUE]

\* QuickJSTool._js_dict_delete
js_dict_delete(m, h, obj_id, key) ==
    IF has_proxy(m, obj_id)
    THEN DictProxy_delete(h, m.proxies[obj_id], key)
    ELSE [heap |-> h, ret |-> FALSE]

\* QuickJSTool._js_dict_has: the strings "true" and "false"
js_dict_has(m, h, obj_id, key) ==
    IF has_proxy(m, obj_id) /\ key \in DOMAIN h[m.proxies[obj_id].data]
    THEN Str(<<"true">>)
    ELSE Str(<<"false">>)

\* QuickJSTool._js_dict_keys: the JSON text of the list of keys
js_dict_keys(m, h, obj_id) ==
    <<"json", <<"keys", IF has_proxy(m, obj_id) THEN DOMAIN h[m.proxies[obj_id].data] ELSE {}>>>>

\* the has trap of the guest Proxy:  _dictHas(id, prop) === 'true'
guest_has_trap(ret) == <<"bool", ret = Str(<<"true">>)>>

\* the ownKeys trap of the guest Proxy:  JSON.parse(_dictKeys(id))
guest_ownKeys_trap(ret) == ret[2]

\* the get trap of the guest Proxy: a string that starts with "__PROXY:" is cut by
\* slice(8, -2) and becomes a guest proxy over that id; anything else passes through
guest_get_trap(ret) ==
    IF ret[1] = "str" /\ Len(ret[2]) >= 1 /\ ret[2][1] = "__PROXY:"
    THEN <<"jsproxy", SubSeq(ret[2], 2, Len(ret[2]) - 1)>>
    ELSE ret

-----------------------------------------------------------------------------
(* QuickJSTool: the interpreter and the exposure of mappings *)

InterpKeys == Threads \cup {"shared"}

\* quickjs_tool.py keeps one Context in self._context; quickjs_tool_thread.py
\* keeps one per thread in self._thread_local
CtxKey(variant, t) == IF variant = "plain" THEN "shared" ELSE t

NoContext ==
    [created |-> FALSE, console_setup |-> FALSE, callbacks_registered |-> FALSE,
     tool_name |-> "", console_tool |-> "", globals |-> EmptyDict,
     surface_regs |-> 0, callback_regs |-> 0, users |-> {}, sse |-> FALSE]

\* QuickJSTool._get_context: creates the Context on first use; quickjs_tool.py also
\* registers the proxy callbacks there, quickjs_tool_thread.py only resets the flags
get_context(variant, ip) ==
    IF variant = "plain"
    THEN [ip EXCEPT !.created = TRUE, !.callbacks_registered = TRUE,
                    !.callback_regs = IF ip.callbacks_registered THEN @ ELSE @ + 1]
    ELSE [ip EXCEPT !.created = TRUE]

\* QuickJSTool._ensure_callbacks_registered
ensure_callbacks_registered(ip) ==
    IF ip.callbacks_registered
    THEN ip
    ELSE [ip EXCEPT !.callbacks_registered = TRUE, !.callback_regs = @ + 1]

\* func_console.apply(ctx): tool_name is read from the global _tool_name once, when
\* the functions are registered, and the console_* closures keep it
apply_console(ip) ==
    [ip EXCEPT !.console_tool = IF ip.tool_name = "" THEN "quickjs" ELSE ip.tool_name]

\* sse_push.apply(ctx): defines ssePush and its wrappers in the interpreter
apply_sse_push(ip) == [ip EXCEPT !.sse = TRUE]

\* "if not console_setup: apply_console(ctx); apply_call_tool(ctx);
\* apply_sse_push(ctx); console_setup = True" (thread); _register_console_functions
\* applies apply_console and apply_call_tool, and nothing else, on every invoke (plain)
register_console_functions(variant, ip) ==
    IF variant = "plain"
    THEN [apply_console(ip) EXCEPT !.surface_regs = @ + 1]
    ELSE IF ip.console_setup
         THEN ip
         ELSE [apply_sse_push(apply_console(ip)) EXCEPT !.console_setup = TRUE,
                                                        !.surface_regs = @ + 1]

\* QuickJSTool.expose_dict: registers the handle, builds the guest Proxy over its id
\* and binds it to the global var_name = name or "exposed_dict_<obj_id>"
expose_dict(variant, ip, m, py_dict, name, drawn) ==
    LET c == create(m, py_dict, name, drawn)
        var_name == IF name # Nil THEN name ELSE <<"exposed_dict_">> \o c.obj_id
        ip1 == ensure_callbacks_registered(get_context(variant, ip))
    IN  [ip |-> [ip1 EXCEPT !.globals = DictSet(@, var_name, c.obj_id)],
         mgr |-> c.mgr, var_name |-> var_name, obj_id |-> c.obj_id, drawn |-> c.drawn]

\* QuickJSTool.release_dict: "delete globalThis.<name>" only when the registry
\* held a handle under that name
release_dict(variant, ip, m, name) ==
    LET r == release(m, name)
    IN  IF r.ret
        THEN [ip |-> [get_context(variant, ip) EXCEPT !.globals = DictDel(@, name)],
              mgr |-> r.mgr, ret |-> TRUE]
        ELSE [ip |-> ip, mgr |-> m, ret |-> FALSE]

\* QuickJSTool.get_dict: the backing mapping of the handle, or None
get_dict(m, name) == IF has_proxy(m, name) THEN Ref(m.proxies[name].data) ELSE None

ContextName == <<"context">>

\* a context argument is exposed only when it is truthy: a non-empty mapping
ContextGiven(h, ctx) == ctx # 0 /\ DOMAIN h[ctx] # {}

\* QuickJSTool.invoke up to the evaluation (plain): the context is exposed under
\* the name "context"; _execute_in_thread up to the evaluation (thread): the
\* context is exposed without a name and "var context = <var_name>" aliases it
begin_invoke(variant, ip, m, h, tool_name, ctx, drawn) ==
    LET ip1 == [get_context(variant, ip) EXCEPT !.tool_name = tool_name]
        ip2 == register_console_functions(variant, ip1)
        ip3 == IF variant = "plain" THEN ip2 ELSE ensure_callbacks_registered(ip2)
    IN  IF ~ContextGiven(h, ctx)
        THEN [ip |-> ip3, mgr |-> m, var_name |-> Nil, obj_id |-> Nil, drawn |-> drawn]
        ELSE IF variant = "plain"
             THEN expose_dict(variant, ip3, m, ctx, ContextName, drawn)
             ELSE LET e == expose_dict(variant, ip3, m, ctx, Nil, drawn)
                  IN  [e EXCEPT !.ip.globals = DictSet(@, ContextName, e.obj_id)]

\* the finally block: "if context_var_name: self.release_dict(context_var_name)"
end_invoke(variant, ip, m, var_name) ==
    IF var_name # Nil
    THEN release_dict(variant, ip, m, var_name)
    ELSE [ip |-> ip, mgr |-> m, ret |-> FALSE]

---------------------
(* Python values of tool arguments and results, and fill_default_args *)

PyInt(n) == <<"int", n>>
PyList(items) == <<"list", items>>
PyDict(d) == <<"dict", d>>
IsDict(v) == v[1] = "dict"

\* bool(v) is False: None, 0, "", [] and {}
Falsy(v) ==
    \/ v = None
    \/ v[1] = "int" /\ v[2] = 0
    \/ v[1] \in {"str", "list"} /\ Len(v[2]) = 0
    \/ v[1] = "dict" /\ DOMAIN v[2] = {}

Ok(v) == <<"ok", v>>
Raise(e) == <<"raise", e>>

IsPair(item) ==
    item[1] = "list" /\ Len(item[2]) = 2 /\ item[2][1][1] = "str" /\ Len(item[2][1][2]) = 1

\* dict(x): a copy of a mapping, a dict built from a sequence of pairs, an error otherwise
py_dict(v) ==
    CASE v[1] = "dict" -> Ok(v)
      [] v[1] = "list" ->
            IF \A i \in 1 .. Len(v[2]) : IsPair(v[2][i])
            THEN Ok(PyDict([k \in {v[2][i][2][1][2][1] : i \in 1 .. Len(v[2])} |->
                              LET last == CHOOSE i \in 1 .. Len(v[2]) :
                                            /\ v[2][i][2][1][2][1] = k
                                            /\ \A j \in 1 .. Len(v[2]) :
                                                  v[2][j][2][1][2][1] = k => j <= i
                              IN  v[2][last][2][2]]))
            ELSE Raise("TypeError")
      [] v[1] = "str" -> IF Len(v[2]) = 0 THEN Ok(PyDict(EmptyDict)) ELSE Raise("ValueError")
      [] OTHER -> Raise("TypeError")

\* d.get(key, {})
SchemaGet(d, key) == IF key \in DOMAIN d THEN d[key] ELSE PyDict(EmptyDict)

RECURSIVE fill_object_defaults(_, _)
RECURSIVE fill_properties(_, _)

\* the loop "for name, schema in properties.items()" of fill_default_args and of
\* fill_object_defaults: a missing key takes the declared default, a present
\* dict-valued key is filled recursively when its schema has properties or a default
fill_properties(properties, result) ==
    [k \in DOMAIN result \cup {q \in DOMAIN properties : "default" \in DOMAIN properties[q][2]} |->
        IF k \notin DOMAIN result
        THEN properties[k][2]["default"]
        ELSE IF /\ k \in DOMAIN properties
                /\ IsDict(result[k])
                /\ \/ "properties" \in DOMAIN properties[k][2]
                   \/ "default" \in DOMAIN properties[k][2]
             THEN fill_object_defaults(properties[k], result[k])
             ELSE result[k]]

\* a fill_object_defaults in which the schema's default object wins over the value
fill_object_defaults_overwrite(obj_schema, obj_value) ==
    IF ~IsDict(obj_value)
    THEN obj_value
    ELSE LET sch == obj_schema[2]
             result == IF "default" \in DOMAIN sch /\ IsDict(sch["default"])
                       THEN sch["default"][2] @@ obj_value[2]
                       ELSE obj_value[2]
             properties == SchemaGet(sch, "properties")
         IN  IF Falsy(properties)
             THEN PyDict(result)
             ELSE PyDict(fill_properties(properties[2], result))

\* tool_args_utils.fill_object_defaults
fill_object_defaults(obj_schema, obj_value) ==
    IF ~IsDict(obj_value)
    THEN obj_value
    ELSE LET sch == obj_schema[2]
             result == IF "default" \in DOMAIN sch /\ IsDict(sch["default"])
                       THEN obj_value[2] @@ sch["default"][2]
                       ELSE obj_value[2]
             properties == SchemaGet(sch, "properties")
         IN  IF Falsy(properties)
             THEN PyDict(result)
             ELSE PyDict(fill_properties(properties[2], result))

\* tool_args_utils.fill_default_args: Ok(result), or the error dict(tool_args) raises
fill_default_args(tool_schema, tool_args) ==
    IF Falsy(tool_schema)
    THEN Ok(tool_args)
    ELSE LET properties == SchemaGet(tool_schema[2], "properties")
         IN  IF Falsy(properties)
             THEN Ok(tool_args)
             ELSE LET d == py_dict(tool_args)
                  IN  IF d[1] = "raise"
                      THEN d
                      ELSE Ok(PyDict(fill_properties(properties[2], d[2][2])))

-----------------------------------------------------------------------------
(* callTool: the host function _call_tool and its guest wrapper *)

\* the tools registered when the program starts (_register_builtins); quickjs is
\* the one whose behaviour the model needs
BuiltinTools == {"quickjs"}

\* dynamic tools, registered from the tool table: scripts that return their
\* arguments, return a value with an error field, or throw
DynamicTools == {"echo", "errval", "fails"}

\* BaseTool.get_parameters of each tool
get_parameters(tool) ==
    CASE tool = "quickjs" ->
            PyDict("type" :> Str(<<"object">>)
                   @@ "properties" :> PyDict("code" :> PyDict("type" :> Str(<<"string">>))))
      [] tool = "echo" ->
            PyDict("type" :> Str(<<"object">>)
                   @@ "properties" :>
                        PyDict("command" :> PyDict("type" :> Str(<<"string">>))
                               @@ "timeout" :> PyDict("type" :> Str(<<"integer">>)
                                                      @@ "default" :> PyInt(60))))
      [] OTHER ->
            PyDict("type" :> Str(<<"object">>) @@ "properties" :> PyDict(EmptyDict))

\* tool.invoke(**args): TypeError when args is no mapping; QuickJSTool.invoke raises
\* ValueError without code and when the evaluation fails
tool_invoke(tool, args) ==
    IF ~IsDict(args)
    THEN Raise("TypeError")
    ELSE CASE tool = "quickjs" ->
                 IF "code" \notin DOMAIN args[2] \/ Falsy(args[2]["code"])
                 THEN Raise("JavaScript code is required")
                 ELSE IF args[2]["code"] = Str(<<"throw 1">>)
                      THEN Raise("JavaScript error")
                      ELSE Ok(PyDict("code" :> args[2]["code"]
                                     @@ "result" :> PyInt(2)
                                     @@ "result_type" :> Str(<<"number">>)))
           [] tool = "echo" -> Ok(args)
           [] tool = "errval" -> Ok(PyDict("error" :> Str(<<"boom">>)))
           [] OTHER -> Raise("ValueError")

\* registry.get(name) is not None
registry_has(reg, name) == name \in reg

\* registry.list_all(): the names of the registered tools
registry_list_all(reg) == <<"names", reg>>

\* json.loads(args_json) if args_json else {}
json_loads(args_json) ==
    CASE Falsy(args_json) -> Ok(PyDict(EmptyDict))
      [] args_json[1] = "json" -> Ok(args_json[2])
      [] args_json[1] = "str" -> Raise("JSONDecodeError")
      [] OTHER -> Raise("TypeError")

\* json.dumps(value): the string a later JSON.parse turns back into the value
json_dumps(v) == <<"json", v>>

ToolNotFound(reg, tool_name) ==
    PyDict("error" :> Str(<<"ToolNotFound">>)
           @@ "tool" :> Str(<<tool_name>>)
           @@ "message" :> Str(<<"Tool '", tool_name, "' not found">>)
           @@ "available" :> registry_list_all(reg))

InvalidArgs(tool_name) ==
    PyDict("error" :> Str(<<"InvalidArgs">>)
           @@ "tool" :> Str(<<tool_name>>)
           @@ "message" :> Str(<<"Invalid JSON arguments: ", "JSONDecodeError">>))

ToolError(tool_name, e) ==
    PyDict("error" :> Str(<<"ToolError">>)
           @@ "tool" :> Str(<<tool_name>>)
           @@ "message" :> Str(<<e>>))

\* _call_tool once the tool is found: the arguments are parsed, the defaults
\* filled in and the tool invoked; threw says that filling or invoking raised
call_tool_found(reg, tool_name, args_json) ==
    LET parsed == json_loads(args_json)
    IN  IF parsed = Raise("JSONDecodeError")
        THEN [outcome |-> Ok(InvalidArgs(tool_name)), invoked |-> {}, threw |-> FALSE]
        ELSE IF parsed[1] = "raise"
        THEN [outcome |-> parsed, invoked |-> {}, threw |-> FALSE]
        ELSE LET args == fill_default_args(get_parameters(tool_name), parsed[2])
             IN  IF args[1] = "raise"
                 THEN [outcome |-> args, invoked |-> {}, threw |-> TRUE]
                 ELSE LET r == tool_invoke(tool_name, args[2])
                      IN  [outcome |-> IF r[1] = "raise"
                                       THEN Ok(ToolError(tool_name, r[2]))
                                       ELSE r,
                           invoked |-> {tool_name},
                           threw |-> r[1] = "raise"]

\* a _call_tool without the registry lookup
call_tool_unchecked(reg, tool_name, args_json) ==
    call_tool_found(reg, tool_name, args_json)

\* _call_tool: Ok(result dict) or the exception that leaves the function, and the
\* tools it invoked
call_tool(reg, tool_name, args_json) ==
    IF ~registry_has(reg, tool_name)
    THEN [outcome |-> Ok(ToolNotFound(reg, tool_name)), invoked |-> {}, threw |-> FALSE]
    ELSE call_tool_found(reg, tool_name, args_json)

\* the callable registered as _callTool: json.dumps of what _call_tool returns
host_callTool(reg, tool_name, args_json) ==
    LET c == call_tool(reg, tool_name, args_json)
    IN  [outcome |-> IF c.outcome[1] = "ok" THEN Ok(json_dumps(c.outcome[2])) ELSE c.outcome,
         invoked |-> c.invoked,
         threw |-> c.threw]

\* "parsed && parsed.error" of the guest wrapper
HasTruthyError(parsed) ==
    IsDict(parsed) /\ "error" \in DOMAIN parsed[2] /\ ~Falsy(parsed[2]["error"])

\* the guest function callTool(name, args) after _callTool returned result: the
\* throw for an error response happens inside the try block whose catch returns
\* the raw result; an exception of _callTool itself is thrown to the script
guest_callTool(host) ==
    IF host[1] = "raise"
    THEN <<"throw", host[2]>>
    ELSE LET result == host[2]
             parsed == result[2]
             body == IF HasTruthyError(parsed)
                     THEN <<"throw", parsed[2]["error"]>>
                     ELSE <<"return", parsed>>
         IN  IF body[1] = "throw" THEN <<"return", result>> ELSE body

-----
(* The state machine: the host exposes, releases and invokes; the script of the
   running invocation calls back one operation at a time *)

NoInv ==
    [active |-> FALSE, t |-> "t1", tool_name |-> "", ctx |-> 0, var_name |-> Nil,
     ctx_id |-> Nil, sink |-> FALSE]

NoCall == [called |-> FALSE]

NoFill == [applied |-> FALSE]

NoRun == [ran |-> FALSE]

NoCallback == [op |-> "none"]

\* no call of invoke yet
NoCalls == [calls |-> 0, with_context |-> 0, evals |-> 0, exposes |-> 0, jobs |-> {}]

\* a thread that is in no registry operation
Idle == [pc |-> "idle", id |-> Nil, data |-> 0]

\* DictProxyManager.__init__: the lock is free
NoRegistryThreads == [lock |-> "", th |-> [t \in Threads |-> Idle]]

Init ==
    /\ impl \in {"plain", "thread"}
    /\ heap = InitHeap
    /\ mgr = NewManager
    /\ interp = [k \in InterpKeys |-> NoContext]
    /\ uuids = 0
    /\ inv = NoInv
    /\ held = {}
    /\ logs = {}
    /\ seen = {}
    /\ released = {}
    /\ owner = EmptyDict
    /\ ops = 0
    /\ lastOp = [op |-> "init"]
    /\ registry = BuiltinTools
    /\ ct = NoCall
    /\ fd = NoFill
    /\ ws = NoRun
    /\ rt = NoRegistryThreads
    /\ cb = NoCallback
    /\ sy = NoCalls

Cur == CtxKey(impl, inv.t)

\* the handles the running script can name: the guest Proxies bound to globals of
\* its interpreter, and those it got from earlier reads
GuestIds == {interp[Cur].globals[n] : n \in DOMAIN interp[Cur].globals} \cup held

Step == ops < MaxOps /\ ops' = ops + 1 /\ UNCHANGED <<registry, ct, fd, ws, rt, cb, sy>>

\* tool.expose_dict(my_data, name), called by the host on thread t
HostExpose(t, a, name) ==
    /\ ~inv.active /\ Step
    /\ LET k == CtxKey(impl, t)
           e == expose_dict(impl, interp[k], mgr, a, name, uuids)
       IN  /\ interp' = [interp EXCEPT ![k] = e.ip]
           /\ mgr' = e.mgr
           /\ uuids' = e.drawn
           /\ owner' = DictSet(owner, e.obj_id, a)
           /\ released' = released \ {e.obj_id}
           /\ lastOp' = [op |-> "expose", name |-> name, obj_id |-> e.obj_id]
    /\ UNCHANGED <<impl, heap, inv, held, logs, seen>>

\* tool.release_dict(name), called by the host on thread t
HostRelease(t, name) ==
    /\ ~inv.active /\ Step
    /\ LET k == CtxKey(impl, t)
           r == release_dict(impl, interp[k], mgr, name)
       IN  /\ interp' = [interp EXCEPT ![k] = r.ip]
           /\ mgr' = r.mgr
           /\ owner' = IF r.ret THEN DictDel(owner, name) ELSE owner
           /\ lastOp' = [op |-> "release", name |-> name,
                         existed |-> has_proxy(mgr, name), ret |-> r.ret]
    /\ released' = released \cup {name}
    /\ UNCHANGED <<impl, heap, uuids, inv, held, logs, seen>>

\* tool.invoke(code=..., tool_name=tn, context=ctx) on thread t, up to the evaluation
Invoke(t, tn, ctx, sink) ==
    /\ ~inv.active /\ Step
    /\ LET k == CtxKey(impl, t)
           b == begin_invoke(impl, interp[k], mgr, heap, tn, ctx, uuids)
       IN  /\ interp' = [interp EXCEPT ![k] = [b.ip EXCEPT !.users = @ \cup {t}]]
           /\ mgr' = b.mgr
           /\ uuids' = b.drawn
           /\ inv' = [active |-> TRUE, t |-> t, tool_name |-> tn, ctx |-> ctx,
                      var_name |-> b.var_name, ctx_id |-> b.obj_id, sink |-> sink]
           /\ owner' = IF b.obj_id # Nil THEN DictSet(owner, b.obj_id, ctx) ELSE owner
           /\ released' = released \ {b.obj_id}
    /\ lastOp' = [op |-> "invoke"]
    /\ UNCHANGED <<impl, heap, held, logs, seen>>

\* the script reads  <proxy>.<key>
GuestGet(id, key) ==
    /\ inv.active /\ Step
    /\ id \in GuestIds
    /\ LET r == js_dict_get(mgr, heap, id, key)
           g == guest_get_trap(r.ret)
           v == IF has_proxy(mgr, id) THEN DictGet(heap[mgr.proxies[id].data], key) ELSE None
       IN  /\ mgr' = r.mgr
           /\ held' = IF g[1] = "jsproxy" THEN held \cup {g[2]} ELSE held
           /\ seen' = IF IsRef(v)
                      THEN seen \cup {[parent |-> id, target |-> v[2],
                                       child |-> IF g[1] = "jsproxy" THEN g[2] ELSE Nil]}
                      ELSE seen
           /\ lastOp' = [op |-> "get",
                         again |-> IsRef(v) /\ \E e \in seen : e.parent = id /\ e.target = v[2]]
    /\ UNCHANGED <<impl, heap, interp, uuids, inv, logs, released, owner>>

\* the script writes  <proxy>.<key> = value
GuestSet(id, key, value) ==
    /\ inv.active /\ Step
    /\ id \in GuestIds
    /\ heap' = js_dict_set(mgr, heap, id, key, value)
    /\ lastOp' = [op |-> "set", id |-> id, key |-> key, value |-> value]
    /\ UNCHANGED <<impl, mgr, interp, uuids, inv, held, logs, seen, released, owner>>

\* the script evaluates  delete <proxy>.<key>
GuestDelete(id, key) ==
    /\ inv.active /\ Step
    /\ id \in GuestIds
    /\ heap' = js_dict_delete(mgr, heap, id, key).heap
    /\ lastOp' = [op |-> "delete"]
    /\ UNCHANGED <<impl, mgr, interp, uuids, inv, held, logs, seen, released, owner>>

\* the script calls console.log / warn / error: _send_console_log forwards the
\* record, tagged with the tool name the console closures hold, to the attached sink
GuestLog ==
    /\ inv.active /\ Step
    /\ logs' = IF inv.sink
               THEN logs \cup {[tool_name |-> interp[Cur].console_tool,
                                invoked_as |-> inv.tool_name]}
               ELSE logs
    /\ lastOp' = [op |-> "log"]
    /\ UNCHANGED <<impl, heap, mgr, interp, uuids, inv, held, seen, released, owner>>

\* how an evaluation ends: with a value, or with a failure of the guest source,
\* of the running guest code, or of a host function the guest called
Evaluations == {"value", "syntax", "runtime", "callback"}

\* the exception ctx.eval raises for each failure; the interpreter binding reports
\* guest errors as JSException, and the except clauses also provide for
\* SyntaxError and for any other Exception
RaisedBy(ev) ==
    CASE ev = "value" -> {"none"}
      [] ev = "syntax" -> {"JSException", "SyntaxError"}
      [] ev = "runtime" -> {"JSException"}
      [] OTHER -> {"JSException", "Exception"}

\* an invoke whose except clauses let the interpreter's exception through
convert_outcome_unconverted(exc, msg) ==
    IF exc = "none" THEN <<"return", "response">> ELSE <<"raise", exc, <<msg>>>>

\* the try/except around ctx.eval: the {code, result, result_type} response, or
\* ValueError with the message of the exception that was caught
convert_outcome(exc, msg) ==
    CASE exc = "none" -> <<"return", "response">>
      [] exc = "JSException" -> <<"raise", "ValueError", <<"JavaScript error: ", msg>>>>
      [] exc = "SyntaxError" -> <<"raise", "ValueError", <<"JavaScript syntax error: ", msg>>>>
      [] OTHER -> <<"raise", "ValueError", <<"JavaScript execution failed: ", msg>>>>

\* ainvoke for the same evaluation: quickjs_tool.py runs invoke in the executor
\* (BaseTool.ainvoke) and passes its outcome on; quickjs_tool_thread.py runs
\* _execute_in_thread in its executor and wraps whatever that raises, the ValueError
\* of the except clauses included, in ValueError("JavaScript execution failed: ...")
ainvoke_outcome(variant, exc, msg) ==
    LET o == convert_outcome(exc, msg)
    IN  IF variant = "plain" \/ o[1] = "return"
        THEN o
        ELSE <<"raise", "ValueError", <<"JavaScript execution failed: ">> \o o[3]>>

\* the evaluation ends, by a result or by the exception exc of the failure ev, and
\* the finally block runs
Finish(ev, exc) ==
    /\ inv.active /\ Step
    /\ LET e == end_invoke(impl, interp[Cur], mgr, inv.var_name)
       IN  /\ interp' = [interp EXCEPT ![Cur] = e.ip]
           /\ mgr' = e.mgr
           /\ owner' = IF e.ret THEN DictDel(owner, inv.var_name) ELSE owner
    /\ released' = IF inv.var_name # Nil THEN released \cup {inv.var_name} ELSE released
    /\ exc \in RaisedBy(ev)
    /\ lastOp' = [op |-> convert_outcome(exc, ev)[1], ctx_id |-> inv.ctx_id,
                  interp |-> Cur, failure |-> ev, outcome |-> convert_outcome(exc, ev),
                  async_outcome |-> ainvoke_outcome(impl, exc, ev)]
    /\ inv' = NoInv
    /\ held' = {}
    /\ UNCHANGED <<impl, heap, uuids, logs, seen>>

\* the bridge: one host thread exposes and releases mappings and runs scripts
\* that read, write and delete through the proxies
Next ==
    \/ \E a \in HostMappings, name \in HostNames : HostExpose("t1", a, name)
    \/ \E name \in HostNames : HostRelease("t1", name)
    \/ \E ctx \in HostMappings \cup {0} : Invoke("t1", "toolA", ctx, FALSE)
    \/ \E id \in GuestIds, key \in Keys : GuestGet(id, key)
    \/ \E id \in GuestIds, key \in Keys, value \in GuestVals : GuestSet(id, key, value)
    \/ \E id \in GuestIds, key \in Keys : GuestDelete(id, key)
    \/ \E ev \in {"value", "runtime"} : \E exc \in RaisedBy(ev) : Finish(ev, exc)

Spec == Init /\ [][Next]_vars

\* the coordinator: invocations with and without a context, from several threads
\* and under several tool names, whose scripts use the context and log
NextCoord ==
    \/ \E t \in Threads, tn \in ToolNames, ctx \in {0, 1}, sink \in BOOLEAN :
          Invoke(t, tn, ctx, sink)
    \/ \E id \in GuestIds : GuestGet(id, "a")
    \/ \E id \in GuestIds, value \in GuestVals : GuestSet(id, "name", value)
    \/ GuestLog
    \/ \E ev \in Evaluations : \E exc \in RaisedBy(ev) : Finish(ev, exc)

SpecCoord == Init /\ [][NextCoord]_vars

-----------------------------------------------------------------------------
(* Claims about the proxy bridge and the registry (Spec) *)

\* C1: a guest write to key k through the handle of an exposed host mapping M makes
\* M[k], read by the host in the mapping object it passed, hold the written value
C1_WriteVisibleInHostMapping ==
    (lastOp.op = "set" /\ lastOp.id \in DOMAIN owner) =>
        /\ lastOp.key \in DOMAIN heap[owner[lastOp.id]]
        /\ heap[owner[lastOp.id]][lastOp.key] = lastOp.value

C1_Witness ==
    /\ lastOp.op = "set" /\ lastOp.id = <<"user">> /\ lastOp.key = "name"
    /\ <<"user">> \in DOMAIN owner /\ owner[<<"user">>] = 1
    /\ heap[1]["name"] = Str(<<"Bob">>)

Changed(h1, h2, a, k) ==
    \/ (k \in DOMAIN h1[a]) # (k \in DOMAIN h2[a])
    \/ k \in DOMAIN h1[a] /\ k \in DOMAIN h2[a] /\ h1[a][k] # h2[a][k]

\* C2: a guest write to key k of one exposed mapping changes nothing but that key of
\* that mapping: all other keys and all other mappings keep their values
C2_WriteChangesOnlyThatKey ==
    [][lastOp'.op = "set" =>
          \A a \in Addrs, k \in Keys :
              Changed(heap, heap', a, k) =>
                  /\ k = lastOp'.key
                  /\ lastOp'.id \in DOMAIN owner => a = owner[lastOp'.id]
                  /\ \A b \in Addrs \ {a}, j \in Keys : ~Changed(heap, heap', b, j)]_vars

C2_Witness ==
    /\ lastOp.op = "set" /\ lastOp.id = <<"user">> /\ lastOp.key = "city"
    /\ DOMAIN owner = {<<"user">>, <<"job">>}
    /\ owner[<<"user">>] = 1 /\ owner[<<"job">>] = 2
    /\ heap[1] = DictSet(InitHeap[1], "city", Str(<<"Bob">>))
    /\ heap[2] = InitHeap[2]

\* C3: when an invocation that was given a context returns or raises, the registry
\* no longer holds the root handle created for that context
C3_ContextHandleReleasedAtReturn ==
    (lastOp.op \in {"return", "raise"} /\ lastOp.ctx_id # Nil) =>
        ~has_proxy(mgr, lastOp.ctx_id)

\* C4: after an invocation that was given a context returns or raises, the guest
\* scope of its interpreter has no binding named context
C4_NoContextBindingAfterReturn ==
    (lastOp.op \in {"return", "raise"} /\ lastOp.ctx_id # Nil) =>
        ContextName \notin DOMAIN interp[lastOp.interp].globals

AllNames == HostNames \cup {ContextName}

\* C5: after release_dict(name), get_dict(name) and the registry's get return absent
\* until a handle is created under that name again; release returns true exactly
\* when the handle existed
C5_ReleasedNameIsAbsent ==
    /\ \A n \in released : get_dict(mgr, n) = None /\ ~has_proxy(mgr, n)
    /\ lastOp.op = "release" => lastOp.ret = lastOp.existed

C5_Witness ==
    /\ lastOp.op = "release" /\ lastOp.ret /\ lastOp.name = <<"user">>
    /\ <<"user">> \in released

\* C6: reading the same nested mapping M.a twice through M's handle resolves both
\* times to the same child handle id, registered with M.a itself as backing
C6_NestedReadsShareOneHandle ==
    /\ \A e1, e2 \in seen :
          (e1.parent = e2.parent /\ e1.target = e2.target) => e1.child = e2.child
    /\ \A e \in seen :
          /\ e.child # Nil
          /\ has_proxy(mgr, e.child)
          /\ mgr.proxies[e.child].data = e.target

C6_Witness ==
    /\ lastOp.op = "get" /\ lastOp.again
    /\ \E e \in seen : e.target = 3 /\ e.child \in held

------------------------------------------------------------------------\* the reverse index maps the mapping at a to id exactly when the forward index
\* maps id to a handle backed by a
IndexesAgree(m) ==
    \A a \in Addrs, id \in HostNames :
        (a \in DOMAIN m.reverse_ref /\ m.reverse_ref[a] = id)
            <=> (id \in DOMAIN m.proxies /\ m.proxies[id].data = a)

C17_ReverseIndexMatchesForward ==
    IndexesAgree(mgr)

-----
(* Claims about the coordinator (SpecCoord) *)

\* C7: every log record emitted by console.log/warn/error during an invocation
\* carries the tool_name passed to that invocation
C7_LogCarriesInvocationToolName ==
    \A l \in logs : l.tool_name = l.invoked_as

\* C14: over any sequence of invocations, the host functions (console, callTool,
\* ssePush) and the proxy callbacks are registered into an interpreter instance
\* at most once
C14_CallbacksRegisteredOnce ==
    \A k \in InterpKeys :
        /\ interp[k].surface_regs <= 1
        /\ interp[k].callback_regs <= 1

\* C15: an interpreter instance is used by one thread only: no two threads ever
\* evaluate on the same instance
C15_OneThreadPerInterpreter ==
    \A k \in InterpKeys : Cardinality(interp[k].users) <= 1

\* the handle id of a nested mapping read through the handle root
IsChildOf(id, root) ==
    /\ Len(id) > Len(root)
    /\ SubSeq(id, 1, Len(root)) = root
    /\ id[Len(root) + 1] = ".child_"

\* C18: once an invocation has ended and the root handle of its context is
\* released, the registry holds no handle of a nested mapping of that context
C18_NestedHandlesSweptWithRoot ==
    (/\ lastOp.op \in {"return", "raise"}
     /\ lastOp.ctx_id # Nil
     /\ ~has_proxy(mgr, lastOp.ctx_id)) =>
        \A id \in DOMAIN mgr.proxies : ~IsChildOf(id, lastOp.ctx_id)

\* C19: a failure during the evaluation (guest syntax error, guest runtime
\* exception, exception of a host function) reaches the caller as ValueError
\* carrying the message, and no {code, result, result_type} value is returned
C19_FailuresBecomeValueError ==
    (lastOp.op \in {"return", "raise"} /\ lastOp.failure # "value") =>
        /\ lastOp.op = "raise"
        /\ lastOp.outcome[1] = "raise"
        /\ lastOp.outcome[2] = "ValueError"
        /\ lastOp.outcome[3][Len(lastOp.outcome[3])] = lastOp.failure

\* C25: for the same evaluation, invoke and ainvoke give the same response or
\* an error of the same class with the same message
C25_SyncAndAsyncAgree ==
    (lastOp.op \in {"return", "raise"} /\ "async_outcome" \in DOMAIN lastOp) =>
        lastOp.async_outcome = lastOp.outcome

C19_Witness ==
    /\ lastOp.op = "raise"
    /\ lastOp.failure = "callback"
    /\ lastOp.outcome = <<"raise", "ValueError", <<"JavaScript execution failed: ", "callback">>>>

-----------------------------------------------------------------------------
(* callTool on its own: every registry the dynamic tools can make, every tool
   name and every argument value a script can pass *)

ArgValues ==
    { None,
      PyDict(EmptyDict),
      PyDict("command" :> Str(<<"ls">>)),
      PyDict("code" :> Str(<<"1 + 1">>)),
      PyDict("code" :> Str(<<"throw 1">>)),
      PyList(<<PyInt(1)>>),
      PyList(<<>>) }

\* what _callTool receives as args: nothing, a number, "", text that is no JSON,
\* or the JSON text of a value
ArgsJson ==
    {None, PyInt(5), Str(<<>>), Str(<<"{oops">>)} \cup {json_dumps(v) : v \in ArgValues}

CallNames == BuiltinTools \cup DynamicTools \cup {"missing"}

InitCallTool ==
    /\ impl = "plain"
    /\ heap = InitHeap
    /\ mgr = NewManager
    /\ interp = [k \in InterpKeys |-> NoContext]
    /\ uuids = 0
    /\ inv = NoInv
    /\ held = {}
    /\ logs = {}
    /\ seen = {}
    /\ released = {}
    /\ owner = EmptyDict
    /\ ops = 0
    /\ lastOp = [op |-> "init"]
    /\ registry \in {BuiltinTools \cup d : d \in SUBSET DynamicTools}
    /\ ct = NoCall
    /\ fd = NoFill
    /\ ws = NoRun
    /\ rt = NoRegistryThreads
    /\ cb = NoCallback
    /\ sy = NoCalls

\* a script evaluates callTool(name, args)
GuestCallTool(name, args_json) ==
    /\ LET h == host_callTool(registry, name, args_json)
       IN  ct' = [called |-> TRUE, name |-> name, args_json |-> args_json,
                  found |-> registry_has(registry, name),
                  host |-> h.outcome, invoked |-> h.invoked, threw |-> h.threw,
                  guest |-> guest_callTool(h.outcome)]
    /\ UNCHANGED <<impl, heap, mgr, interp, uuids, inv, held, logs, seen, released,
                   owner, ops, lastOp, registry, fd, ws, rt, cb, sy>>

NextCallTool == \E name \in CallNames, a \in ArgsJson : GuestCallTool(name, a)

SpecCallTool == InitCallTool /\ [][NextCallTool]_vars

-----------------------------------------------------------------------------
(* Claims about callTool (SpecCallTool) *)

HasErrorField(v) == IsDict(v) /\ "error" \in DOMAIN v[2]

\* C8: the guest function callTool throws whenever the parsed host response
\* contains an error field, and returns the parsed object when it does not
C8_CallToolThrowsOnErrorField ==
    (ct.called /\ ct.host[1] = "ok") =>
        LET parsed == ct.host[2][2]
        IN  /\ HasErrorField(parsed) => ct.guest[1] = "throw"
            /\ ~HasErrorField(parsed) => ct.guest = <<"return", parsed>>

C10_FoundToolNeverPropagates ==
    (ct.called /\ ct.found /\ ct.threw) =>
        /\ ct.host[1] = "ok"
        /\ HasErrorField(ct.host[2][2])
        /\ ct.host[2][2][2]["error"] = Str(<<"ToolError">>)
        /\ ct.host[2][2][2]["tool"] = Str(<<ct.name>>)

-----------------------------------------------------------------------------
(* fill_default_args on its own: tool schemas with flat defaults, nested
   properties and default objects, applied to every argument mapping over the
   same keys *)

TypeOnly(t) == PyDict("type" :> Str(<<t>>))
WithDefault(t, v) == PyDict("type" :> Str(<<t>>) @@ "default" :> v)
ObjectSchema(fields) == PyDict("type" :> Str(<<"object">>) @@ fields)

NestedProps == PyDict("a" :> TypeOnly("integer") @@ "b" :> WithDefault("integer", PyInt(10)))

FlatProps == "command" :> TypeOnly("string") @@ "timeout" :> WithDefault("integer", PyInt(60))

\* options as an object parameter: nested properties only, a default object
\* only, both, and both with a default object that already has every leaf
OptionSchemas ==
    { ObjectSchema("properties" :> NestedProps),
      ObjectSchema("default" :> PyDict("a" :> PyInt(1))),
      ObjectSchema("default" :> PyDict("a" :> PyInt(1)) @@ "properties" :> NestedProps),
      ObjectSchema("default" :> PyDict("a" :> PyInt(1) @@ "b" :> PyInt(2))
                   @@ "properties" :> NestedProps) }

Schemas ==
    { ObjectSchema("properties" :> PyDict(EmptyDict)),
      ObjectSchema("properties" :> PyDict(FlatProps)) }
    \cup { ObjectSchema("properties" :> PyDict("options" :> o)) : o \in OptionSchemas }
    \cup { ObjectSchema("properties" :> PyDict(FlatProps @@ "options" :> o)) : o \in OptionSchemas }

OptionValues ==
    { PyDict(EmptyDict),
      PyDict("a" :> PyInt(5)),
      PyDict("b" :> PyInt(7)),
      PyDict("a" :> PyInt(5) @@ "b" :> PyInt(7)),
      Str(<<"fast">>) }

ArgChoices ==
    [command : {None, Str(<<"ls">>)}, timeout : {None, PyInt(5)}, options : {None} \cup OptionValues]

\* the argument mapping that holds the chosen keys; None stands for an absent key
ArgMapping(c) ==
    PyDict([k \in {j \in {"command", "timeout", "options"} : c[j] # None} |-> c[k]])

ArgMappings == {ArgMapping(c) : c \in ArgChoices}

InitFill ==
    /\ impl = "plain"
    /\ heap = InitHeap
    /\ mgr = NewManager
    /\ interp = [k \in InterpKeys |-> NoContext]
    /\ uuids = 0
    /\ inv = NoInv
    /\ held = {}
    /\ logs = {}
    /\ seen = {}
    /\ released = {}
    /\ owner = EmptyDict
    /\ ops = 0
    /\ lastOp = [op |-> "init"]
    /\ registry = BuiltinTools
    /\ ct = NoCall
    /\ fd = NoFill
    /\ ws = NoRun
    /\ rt = NoRegistryThreads
    /\ cb = NoCallback
    /\ sy = NoCalls

\* a caller fills the defaults into args, and fills them into the result again
FillArgs(schema, args) ==
    /\ LET once == fill_default_args(schema, args)
       IN  fd' = [applied |-> TRUE, schema |-> schema, args |-> args,
                  once |-> once,
                  twice |-> IF once[1] = "ok" THEN fill_default_args(schema, once[2]) ELSE once]
    /\ UNCHANGED <<impl, heap, mgr, interp, uuids, inv, held, logs, seen, released,
                   owner, ops, lastOp, registry, ct, ws, rt, cb, sy>>

NextFill == \E schema \in Schemas, args \in ArgMappings : FillArgs(schema, args)

SpecFill == InitFill /\ [][NextFill]_vars

-----------------------------------------------------------------------------
(* Claims about fill_default_args (SpecFill) *)

\* C11: filling the defaults is idempotent: filling the result of
\* fill_default_args(schema, args) again with the same schema gives that result
C11_FillIsIdempotent ==
    fd.applied => fd.twice = fd.once

RECURSIVE Keeps(_, _)

\* r keeps v: the same value, or a mapping with every key of v whose values keep v's
Keeps(v, r) ==
    IF IsDict(v)
    THEN /\ IsDict(r)
         /\ DOMAIN v[2] \subseteq DOMAIN r[2]
         /\ \A k \in DOMAIN v[2] : Keeps(v[2][k], r[2][k])
    ELSE r = v

\* the keys of the schema's properties that declare a default
Defaulted(props) == {q \in DOMAIN props : "default" \in DOMAIN props[q][2]}

\* the keys a nested value may gain: those of the schema's default object and
\* those of its nested properties that declare a default
Fillable(sch) ==
    (IF "default" \in DOMAIN sch[2] /\ IsDict(sch[2]["default"])
     THEN DOMAIN sch[2]["default"][2] ELSE {})
    \cup Defaulted(SchemaGet(sch[2], "properties")[2])

\* C12: fill_default_args(schema, args) is args extended with the declared default
\* of every property absent from args; every supplied value is kept, and a nested
\* object argument gains only the leaves it lacks, from its nested schema
C12_FillAddsOnlyMissingDefaults ==
    fd.applied =>
        /\ fd.once[1] = "ok"
        /\ IsDict(fd.once[2])
        /\ LET props == SchemaGet(fd.schema[2], "properties")[2]
               a == fd.args[2]
               r == fd.once[2][2]
           IN  /\ DOMAIN r = DOMAIN a \cup Defaulted(props)
               /\ \A k \in DOMAIN r \ DOMAIN a : r[k] = props[k][2]["default"]
               /\ \A k \in DOMAIN a \cap DOMAIN r : Keeps(a[k], r[k])
               /\ \A k \in DOMAIN a \cap DOMAIN r :
                     (IsDict(a[k]) /\ IsDict(r[k])) =>
                         DOMAIN r[k][2] \ DOMAIN a[k][2] \subseteq
                             (IF k \in DOMAIN props THEN Fillable(props[k]) ELSE {})

C12_Witness ==
    /\ fd.applied
    /\ fd.schema = ObjectSchema("properties" :> PyDict(FlatProps @@ "options" :>
                                   ObjectSchema("properties" :> NestedProps)))
    /\ fd.args = PyDict("command" :> Str(<<"ls">>) @@ "options" :> PyDict("a" :> PyInt(5)))
    /\ fd.once = Ok(PyDict("command" :> Str(<<"ls">>)
                           @@ "timeout" :> PyInt(60)
                           @@ "options" :> PyDict("a" :> PyInt(5) @@ "b" :> PyInt(10))))

-----------------------------------------------------------------------------
(* The script wrapper and the dynamic tools that run through it *)

Undefined == <<"undefined">>

CallsSuper == "return callSuper();"
ReadsData == "return context.data;"
ReadsArgs == "return context.args;"
HasExecute == "function execute(context) { return context.args; }"

ChildCodes == {CallsSuper, ReadsData, ReadsArgs, HasExecute}

\* a tool without inherit_from: the check "if inherit_from" takes None and ""
NoParent == ""

\* "function execute" in code
ContainsExecute(code) == code = HasExecute

\* script_wrapper.wrap_javascript_code: the wrapped script declares one guest
\* constant, context, whose args is the literal of params and whose data, when
\* inherit_from is set, is the value of callTool(inherit_from, params) evaluated
\* while the constant is built; the tool's code follows
wrap_javascript_code(code, params, inherit_from) ==
    [declares |-> {"context"},
     context_args |-> params,
     data_call |-> IF inherit_from # NoParent THEN <<inherit_from, params>> ELSE None,
     code |-> code,
     calls_execute |-> ContainsExecute(code)]

\* the names a script can call: what the wrapper declares and the host functions
GuestFunctions(w) == w.declares \cup {"callTool", "ssePush", "console"}

\* the evaluation of a wrapped script: the parent tools it called through
\* callTool, in order, and what the script returned or threw
eval_wrapped(reg, w) ==
    LET dc == w.data_call
        data == IF dc = None
                THEN <<"return", Undefined>>
                ELSE guest_callTool(host_callTool(reg, dc[1], json_dumps(dc[2])).outcome)
        calls == IF dc = None THEN <<>> ELSE <<dc>>
    IN  IF data[1] = "throw"
        THEN [calls |-> calls, super_calls |-> <<>>, outcome |-> data]
        ELSE [calls |-> calls,
              super_calls |-> <<>>,
              outcome |->
                 CASE w.code = CallsSuper ->
                         IF "callSuper" \in GuestFunctions(w)
                         THEN <<"return", Undefined>>
                         ELSE <<"throw", "ReferenceError: callSuper is not defined">>
                   [] w.code = ReadsData -> <<"return", data[2]>>
                   [] OTHER -> <<"return", w.context_args>>]

NotEvaluated(exc) == [calls |-> <<>>, super_calls |-> <<>>, outcome |-> <<"raise", exc>>]

\* the three callers of wrap_javascript_code: DynamicTool.execute of dynamic_tool
\* evaluates the string it gets; DynamicTool.invoke of js_dynamic_tool passes the
\* keyword metadata, which the function does not take; execute_tool of api/tools
\* unpacks the string into (context, script)
Callers == {"dynamic_tool", "js_dynamic_tool", "api_tools"}

run_dynamic_tool(caller, reg, code, params, inherit_from) ==
    CASE caller = "js_dynamic_tool" -> NotEvaluated("TypeError")
      [] caller = "api_tools" -> NotEvaluated("ValueError")
      [] OTHER -> eval_wrapped(reg, wrap_javascript_code(code, params, inherit_from))

Parents == {NoParent, "echo", "missing"}

InitWrap ==
    /\ impl = "plain"
    /\ heap = InitHeap
    /\ mgr = NewManager
    /\ interp = [k \in InterpKeys |-> NoContext]
    /\ uuids = 0
    /\ inv = NoInv
    /\ held = {}
    /\ logs = {}
    /\ seen = {}
    /\ released = {}
    /\ owner = EmptyDict
    /\ ops = 0
    /\ lastOp = [op |-> "init"]
    /\ registry = BuiltinTools \cup {"echo"}
    /\ ct = NoCall
    /\ fd = NoFill
    /\ ws = NoRun
    /\ rt = NoRegistryThreads
    /\ cb = NoCallback
    /\ sy = NoCalls

\* a dynamic tool with the given code and parent is run with params
RunDynamicTool(caller, code, params, inherit_from) ==
    /\ LET r == run_dynamic_tool(caller, registry, code, params, inherit_from)
       IN  ws' = [ran |-> TRUE, caller |-> caller, code |-> code, params |-> params,
                  inherit_from |-> inherit_from,
                  declares |-> wrap_javascript_code(code, params, inherit_from).declares,
                  calls |-> r.calls, super_calls |-> r.super_calls, outcome |-> r.outcome]
    /\ UNCHANGED <<impl, heap, mgr, interp, uuids, inv, held, logs, seen, released,
                   owner, ops, lastOp, registry, ct, fd, rt, cb, sy>>

NextWrap ==
    \E caller \in Callers, code \in ChildCodes, params \in ArgMappings, parent \in Parents :
        RunDynamicTool(caller, code, params, parent)

SpecWrap == InitWrap /\ [][NextWrap]_vars

\* C13: for a tool that declares inherit_from = A, the wrapper declares a guest
\* function callSuper, and a call of it by the tool's code invokes
\* callTool(A, context.args) with the tool's own arguments
C13_CallSuperForwardsArgs ==
    (ws.ran /\ ws.inherit_from # NoParent /\ ws.code = CallsSuper) =>
        /\ "callSuper" \in ws.declares
        /\ ws.super_calls = << <<ws.inherit_from, ws.params>> >>

-----------------------------------------------------------------------------
(* DictProxyManager under threads: every operation of the registry is taken
   apart into its reads and writes of _proxies and _reverse_ref, so that the
   threads interleave between them; only create runs inside "with self._lock" *)

RegistryNames == HostNames

RegistryFrame ==
    UNCHANGED <<impl, heap, interp, uuids, inv, held, logs, seen, released, owner,
                ops, lastOp, registry, ct, fd, ws, cb, sy>>

At(t, pc) == rt.th[t].pc = pc

Goto(t, pc, id, data) == [rt EXCEPT !.th[t] = [pc |-> pc, id |-> id, data |-> data]]

\* create: "with self._lock" is entered
CreateEnter(t, a, name) ==
    /\ At(t, "idle") /\ rt.lock = ""
    /\ rt' = [Goto(t, "create_forward", name, a) EXCEPT !.lock = t]
    /\ UNCHANGED mgr
    /\ RegistryFrame

\* create: self._proxies[obj_id] = proxy
CreateForward(t) ==
    /\ At(t, "create_forward")
    /\ mgr' = [mgr EXCEPT !.proxies =
                  DictSet(@, rt.th[t].id, DictProxy(rt.th[t].data, rt.th[t].id))]
    /\ rt' = Goto(t, "create_reverse", rt.th[t].id, rt.th[t].data)
    /\ RegistryFrame

\* create: self._reverse_ref[id(py_dict)] = obj_id, and the lock is left
CreateReverse(t) ==
    /\ At(t, "create_reverse")
    /\ mgr' = [mgr EXCEPT !.reverse_ref = DictSet(@, rt.th[t].data, rt.th[t].id)]
    /\ rt' = [Goto(t, "idle", Nil, 0) EXCEPT !.lock = ""]
    /\ RegistryFrame

\* get: the call; the read of self._proxies is the next step
GetEnter(t, id) ==
    /\ At(t, "idle")
    /\ rt' = Goto(t, "get_read", id, 0)
    /\ UNCHANGED mgr
    /\ RegistryFrame

\* get: return self._proxies.get(obj_id)
GetRead(t) ==
    /\ At(t, "get_read")
    /\ rt' = Goto(t, "idle", Nil, 0)
    /\ UNCHANGED mgr
    /\ RegistryFrame

\* release: "if obj_id in self._proxies"
ReleaseCheck(t, id) ==
    /\ At(t, "idle")
    /\ has_proxy(mgr, id)
    /\ rt' = Goto(t, "release_read", id, 0)
    /\ UNCHANGED mgr
    /\ RegistryFrame

\* release: proxy = self._proxies[obj_id]; KeyError when the entry is gone
ReleaseRead(t) ==
    /\ At(t, "release_read")
    /\ rt' = IF has_proxy(mgr, rt.th[t].id)
             THEN Goto(t, "release_reverse", rt.th[t].id, mgr.proxies[rt.th[t].id].data)
             ELSE Goto(t, "raised", Nil, 0)
    /\ UNCHANGED mgr
    /\ RegistryFrame

\* release: "if dict_id in self._reverse_ref: del self._reverse_ref[dict_id]"
ReleaseReverse(t) ==
    /\ At(t, "release_reverse")
    /\ mgr' = [mgr EXCEPT !.reverse_ref = DictDel(@, rt.th[t].data)]
    /\ rt' = Goto(t, "release_forward", rt.th[t].id, rt.th[t].data)
    /\ RegistryFrame

\* release: del self._proxies[obj_id]; KeyError when the entry is gone
ReleaseForward(t) ==
    /\ At(t, "release_forward")
    /\ IF has_proxy(mgr, rt.th[t].id)
       THEN /\ mgr' = [mgr EXCEPT !.proxies = DictDel(@, rt.th[t].id)]
            /\ rt' = Goto(t, "idle", Nil, 0)
       ELSE /\ UNCHANGED mgr
            /\ rt' = Goto(t, "raised", Nil, 0)
    /\ RegistryFrame

\* clear: self._proxies.clear()
ClearForward(t) ==
    /\ At(t, "idle")
    /\ mgr' = [mgr EXCEPT !.proxies = EmptyDict]
    /\ rt' = Goto(t, "clear_reverse", Nil, 0)
    /\ RegistryFrame

\* clear: self._reverse_ref.clear()
ClearReverse(t) ==
    /\ At(t, "clear_reverse")
    /\ mgr' = [mgr EXCEPT !.reverse_ref = EmptyDict]
    /\ rt' = Goto(t, "idle", Nil, 0)
    /\ RegistryFrame

\* _js_dict_get on a live handle whose value under key is a nested mapping: the
\* child is looked up with "if not self._proxy_manager.get(value.obj_id)"
ChildCheck(t, id, key) ==
    /\ At(t, "idle")
    /\ has_proxy(mgr, id)
    /\ LET g == DictProxy_get(heap, mgr.proxies[id], key)
       IN  /\ g.result[1] = "proxy"
           /\ ~has_proxy(mgr, g.result[2])
           /\ mgr' = [mgr EXCEPT !.proxies[id] = g.proxy]
           /\ rt' = Goto(t, "child_write", g.result[2], g.result[3])
    /\ RegistryFrame

\* _js_dict_get: self._proxy_manager._proxies[value.obj_id] = value
ChildWrite(t) ==
    /\ At(t, "child_write")
    /\ mgr' = [mgr EXCEPT !.proxies =
                  DictSet(@, rt.th[t].id, DictProxy(rt.th[t].data, rt.th[t].id))]
    /\ rt' = Goto(t, "idle", Nil, 0)
    /\ RegistryFrame

InitRegistry ==
    /\ impl = "thread"
    /\ heap = InitHeap
    /\ mgr = NewManager
    /\ interp = [k \in InterpKeys |-> NoContext]
    /\ uuids = 0
    /\ inv = NoInv
    /\ held = {}
    /\ logs = {}
    /\ seen = {}
    /\ released = {}
    /\ owner = EmptyDict
    /\ ops = 0
    /\ lastOp = [op |-> "init"]
    /\ registry = BuiltinTools
    /\ ct = NoCall
    /\ fd = NoFill
    /\ ws = NoRun
    /\ rt = NoRegistryThreads
    /\ cb = NoCallback
    /\ sy = NoCalls

NextRegistry ==
    \E t \in Threads :
        \/ \E a \in HostMappings, name \in RegistryNames : CreateEnter(t, a, name)
        \/ CreateForward(t)
        \/ CreateReverse(t)
        \/ \E id \in RegistryNames : GetEnter(t, id)
        \/ GetRead(t)
        \/ \E id \in RegistryNames : ReleaseCheck(t, id)
        \/ ReleaseRead(t)
        \/ ReleaseReverse(t)
        \/ ReleaseForward(t)
        \/ ClearForward(t)
        \/ ClearReverse(t)
        \/ \E id \in RegistryNames : ChildCheck(t, id, "a")
        \/ ChildWrite(t)

SpecRegistry == InitRegistry /\ [][NextRegistry]_vars

-----------------------------------------------------------------------------
(* Claims about the registry under threads (SpecRegistry) *)

\* the thread is inside a registry operation
InOperation(t) == rt.th[t].pc \notin {"idle", "raised"}

\* the thread has written one index and not yet the other
Modifying(t) == rt.th[t].pc \in {"create_reverse", "release_forward", "clear_reverse"}

\* C16: the operations of the registry exclude each other: while one thread is
\* modifying the forward or the reverse index, no other thread is inside a create,
\* get, release or registration of a nested child
C16_RegistryMutualExclusion ==
    \A t1, t2 \in Threads :
        (t1 # t2 /\ Modifying(t1)) => ~InOperation(t2)

-----------------------------------------------------------------------------
(* The proxy callbacks called by a script with any handle id: an id the registry
   holds, or one it does not hold (a released handle, or any string the script
   passes to _dictGet and the others) *)

UnknownId == <<"gone">>

CallbackIds == {<<"user">>, UnknownId}

\* the dict that reaches _dictSet when a script passes  {__proxy_id: "user"}
MarkerObj == 4

\* what a script passes to the set trap: a string, a string that looks like the
\* sentinel of a nested handle, or an object carrying a proxy-id marker
CallbackVals == GuestVals \cup {ProxyMarker(<<"user">>), Ref(MarkerObj)}

\* the mapping behind the handle that a marker object names, 0 if there is none
MarkedMapping(value) ==
    IF IsRef(value) /\ "__proxy_id" \in DOMAIN heap[value[2]]
       /\ has_proxy(mgr, heap[value[2]]["__proxy_id"][2])
    THEN mgr.proxies[heap[value[2]]["__proxy_id"][2]].data
    ELSE 0

\* what a callback is about to find: whether the registry holds the id and
\* whether the mapping behind it has the key
Observed(op, id, key, value, ret, after) ==
    [op |-> op, id |-> id, key |-> key, ret |-> ret, changed |-> after # heap,
     value |-> value,
     stored |-> IF has_proxy(mgr, id) THEN DictGet(after[mgr.proxies[id].data], key) ELSE None,
     target |-> MarkedMapping(value),
     remains |-> has_proxy(mgr, id) /\ key \in DOMAIN after[mgr.proxies[id].data],
     known |-> has_proxy(mgr, id),
     present |-> has_proxy(mgr, id) /\ key \in DOMAIN heap[mgr.proxies[id].data]]

CallbackStep ==
    /\ inv.active
    /\ ops < MaxOps /\ ops' = ops + 1
    /\ UNCHANGED <<impl, interp, uuids, inv, held, logs, seen, released, owner, lastOp,
                   registry, ct, fd, ws, rt, sy>>

\* the script reads a property through the get trap
CallbackGet(id, key) ==
    /\ CallbackStep
    /\ LET r == js_dict_get(mgr, heap, id, key)
       IN  /\ mgr' = r.mgr
           /\ cb' = Observed("get", id, key, None, guest_get_trap(r.ret), heap)
    /\ UNCHANGED heap

\* the script writes a property through the set trap
CallbackSet(id, key, value) ==
    /\ CallbackStep
    /\ heap' = js_dict_set(mgr, heap, id, key, value)
    /\ cb' = Observed("set", id, key, value, None, heap')
    /\ UNCHANGED mgr

\* the script evaluates  key in <proxy>
CallbackHas(id, key) ==
    /\ CallbackStep
    /\ cb' = Observed("has", id, key, None, guest_has_trap(js_dict_has(mgr, heap, id, key)), heap)
    /\ UNCHANGED <<heap, mgr>>

\* the script evaluates  Object.keys(<proxy>)
CallbackKeys(id) ==
    /\ CallbackStep
    /\ cb' = Observed("keys", id, "name", None, guest_ownKeys_trap(js_dict_keys(mgr, heap, id)), heap)
    /\ UNCHANGED <<heap, mgr>>

\* the script evaluates  delete <proxy>.<key>
CallbackDelete(id, key) ==
    /\ CallbackStep
    /\ LET r == js_dict_delete(mgr, heap, id, key)
       IN  /\ heap' = r.heap
           /\ cb' = Observed("delete", id, key, None, <<"bool", r.ret>>, r.heap)
    /\ UNCHANGED mgr

NextCallbacks ==
    \/ \E a \in HostMappings : HostExpose("t1", a, <<"user">>)
    \/ HostRelease("t1", <<"user">>)
    \/ Invoke("t1", "toolA", 0, FALSE)
    \/ \E id \in CallbackIds, key \in Keys : CallbackGet(id, key)
    \/ \E id \in CallbackIds, key \in Keys, value \in CallbackVals : CallbackSet(id, key, value)
    \/ \E id \in CallbackIds, key \in Keys : CallbackHas(id, key)
    \/ \E id \in CallbackIds : CallbackKeys(id)
    \/ \E id \in CallbackIds, key \in Keys : CallbackDelete(id, key)
    \/ Finish("value", "none")

InitCallbacks ==
    /\ impl \in {"plain", "thread"}
    /\ heap = InitHeap @@ (MarkerObj :> ("__proxy_id" :> Str(<<"user">>)))
    /\ mgr = NewManager
    /\ interp = [k \in InterpKeys |-> NoContext]
    /\ uuids = 0
    /\ inv = NoInv
    /\ held = {}
    /\ logs = {}
    /\ seen = {}
    /\ released = {}
    /\ owner = EmptyDict
    /\ ops = 0
    /\ lastOp = [op |-> "init"]
    /\ registry = BuiltinTools
    /\ ct = NoCall
    /\ fd = NoFill
    /\ ws = NoRun
    /\ rt = NoRegistryThreads
    /\ cb = NoCallback
    /\ sy = NoCalls

SpecCallbacks == InitCallbacks /\ [][NextCallbacks]_vars

\* C20: with a handle id the registry does not hold, get gives null, set does
\* nothing, has gives false, keys gives the empty list and delete gives false; on a
\* live handle, delete of a missing key gives false and changes nothing, and
\* delete of a present key removes the key and gives true
C20_CallbacksDegradeQuietly ==
    /\ (cb.op # "none" /\ ~cb.known) =>
          /\ ~cb.changed
          /\ cb.op = "get" => cb.ret = None
          /\ cb.op = "set" => cb.ret = None
          /\ cb.op = "has" => cb.ret = <<"bool", FALSE>>
          /\ cb.op = "keys" => cb.ret = <<"keys", {}>>
          /\ cb.op = "delete" => cb.ret = <<"bool", FALSE>>
    /\ (cb.op = "delete" /\ cb.known /\ ~cb.present) =>
          cb.ret = <<"bool", FALSE>> /\ ~cb.changed
    /\ (cb.op = "delete" /\ cb.known /\ cb.present) =>
          cb.ret = <<"bool", TRUE>> /\ ~cb.remains

C20_Witness ==
    /\ cb.op = "delete" /\ cb.known /\ cb.present /\ cb.ret = <<"bool", TRUE>>
    /\ ~cb.remains

\* C21: a set whose value is an object carrying the proxy-id marker of a live
\* handle stores the mapping behind that handle, by reference, at M[key]
C21_MarkerAssignsByReference ==
    (cb.op = "set" /\ cb.known /\ cb.target # 0) => cb.stored = Ref(cb.target)

\* C22: a guest read of a key whose value is a scalar, a string of any content
\* included, gives that scalar
C22_ScalarsReadAsStored ==
    (cb.op = "get" /\ cb.known /\ cb.stored[1] \in {"str", "none"}) => cb.ret = cb.stored

-----------------------------------------------------------------------------
(* Event push: ssePush and its wrappers, and console.*, with and without a sink *)

PushFns == {"ssePush", "pushContent", "pushConsole", "pushDone", "pushError"}

\* the event each wrapper passes to ssePush; ssePush itself passes the script's
EventOf(fn) ==
    CASE fn = "pushContent" -> "content"
      [] fn = "pushConsole" -> "console"
      [] fn = "pushDone" -> "done"
      [] fn = "pushError" -> "error"
      [] OTHER -> "custom"

\* task_context.get(): the dict that holds the stream_writer when a sink is
\* attached; otherwise the ContextVar's default, which is the class dict
task_context_get(attached) == IF attached THEN <<"dict", "stream_writer">> ELSE <<"class", "dict">>

\* _sse_push: with a sink the event goes to send_queue and the result is True;
\* on the default, context.get("stream_writer") raises TypeError, which the
\* except clause turns into False
sse_push(context) ==
    IF context[1] = "dict"
    THEN [ret |-> TRUE, forwarded |-> TRUE]
    ELSE [ret |-> FALSE, forwarded |-> FALSE]

\* the script calls ssePush(event, data) or one of its wrappers; in an interpreter
\* where sse_push.apply never ran the name is not defined
GuestPush(fn) ==
    /\ inv.active /\ Step
    /\ IF interp[Cur].sse
       THEN LET r == sse_push(task_context_get(inv.sink))
            IN  /\ logs' = IF r.forwarded
                           THEN logs \cup {[event |-> EventOf(fn), invoked_as |-> inv.tool_name]}
                           ELSE logs
                /\ lastOp' = [op |-> "push", fn |-> fn, attached |-> inv.sink,
                              forwarded |-> r.forwarded, ret |-> <<"bool", r.ret>>,
                              raised |-> "none"]
       ELSE /\ logs' = logs
            /\ lastOp' = [op |-> "push", fn |-> fn, attached |-> inv.sink,
                          forwarded |-> FALSE, ret |-> None, raised |-> "ReferenceError"]
    /\ UNCHANGED <<impl, heap, mgr, interp, uuids, inv, held, seen, released, owner>>

NextPush ==
    \/ \E tn \in ToolNames, sink \in BOOLEAN : Invoke("t1", tn, 0, sink)
    \/ GuestLog
    \/ \E fn \in PushFns : GuestPush(fn)
    \/ Finish("value", "none")

SpecPush == Init /\ [][NextPush]_vars

\* C24: ssePush and its wrappers return true exactly when a sink is attached and
\* the event was forwarded, false without a sink, and never raise
C24_PushReportsForwarding ==
    lastOp.op = "push" =>
        /\ lastOp.raised = "none"
        /\ lastOp.ret = <<"bool", lastOp.attached /\ lastOp.forwarded>>

-----------------------------------------------------------------------------
(* Live views: the host changes an exposed mapping, its nested mapping and its
   nested list while scripts read them through the proxy *)

ListObj == 4

\* mapping 1 with a nested mapping under "a" and a nested list under "city"
LiveHeap ==
    [InitHeap EXCEPT ![1] = DictSet(@, "city", ListRef(ListObj))]
    @@ (ListObj :> <<Str(<<"x">>)>>)

MaxItems == 2

\* what the guest should see for the value v stored in a mapping
CurrentView(h, v) ==
    IF IsRef(v) THEN <<"mapping", v[2]>>
    ELSE IF IsListRef(v) THEN <<"list", h[v[2]]>>
         ELSE v

\* what the guest got: a nested proxy stands for the mapping behind its handle
GuestView(m, g) ==
    IF g[1] = "jsproxy"
    THEN <<"mapping", IF has_proxy(m, g[2]) THEN m.proxies[g[2]].data ELSE 0>>
    ELSE g

LiveStep ==
    /\ ops < MaxOps /\ ops' = ops + 1
    /\ UNCHANGED <<impl, interp, uuids, inv, held, logs, seen, released, owner, lastOp,
                   registry, ct, fd, ws, rt, sy>>

\* the script reads  user.<key>
LiveGet(key) ==
    /\ inv.active /\ LiveStep
    /\ <<"user">> \in GuestIds
    /\ LET r == js_dict_get(mgr, heap, <<"user">>, key)
           v == IF has_proxy(mgr, <<"user">>)
                THEN DictGet(heap[mgr.proxies[<<"user">>].data], key) ELSE None
       IN  /\ mgr' = r.mgr
           /\ cb' = [op |-> "read", key |-> key, known |-> has_proxy(mgr, <<"user">>),
                     ret |-> GuestView(r.mgr, guest_get_trap(r.ret)),
                     current |-> CurrentView(heap, v),
                     again |-> IsListRef(v) /\ has_proxy(mgr, <<"user">>)
                               /\ v[2] \in DOMAIN mgr.proxies[<<"user">>].cache]
    /\ UNCHANGED heap

\* the host appends to the nested list in place:  M["city"].append("y")
HostAppend ==
    /\ LiveStep
    /\ Len(heap[ListObj]) < MaxItems
    /\ heap' = [heap EXCEPT ![ListObj] = Append(@, Str(<<"y">>))]
    /\ cb' = [op |-> "append"]
    /\ UNCHANGED mgr

\* the host replaces a value:  M[key] = value
HostReplace(key, value) ==
    /\ LiveStep
    /\ heap' = [heap EXCEPT ![1] = DictSet(@, key, value)]
    /\ cb' = [op |-> "replace"]
    /\ UNCHANGED mgr

\* the host changes the nested mapping in place:  M["a"]["name"] = value
HostSetNested(value) ==
    /\ LiveStep
    /\ heap' = [heap EXCEPT ![3] = DictSet(@, "name", value)]
    /\ cb' = [op |-> "nested"]
    /\ UNCHANGED mgr

InitLive ==
    /\ impl \in {"plain", "thread"}
    /\ heap = LiveHeap
    /\ mgr = NewManager
    /\ interp = [k \in InterpKeys |-> NoContext]
    /\ uuids = 0
    /\ inv = NoInv
    /\ held = {}
    /\ logs = {}
    /\ seen = {}
    /\ released = {}
    /\ owner = EmptyDict
    /\ ops = 0
    /\ lastOp = [op |-> "init"]
    /\ registry = BuiltinTools
    /\ ct = NoCall
    /\ fd = NoFill
    /\ ws = NoRun
    /\ rt = NoRegistryThreads
    /\ cb = NoCallback
    /\ sy = NoCalls

NextLive ==
    \/ HostExpose("t1", 1, <<"user">>)
    \/ Invoke("t1", "toolA", 0, FALSE)
    \/ \E key \in {"a", "city", "name"} : LiveGet(key)
    \/ HostAppend
    \/ \E key \in {"a", "name"}, value \in {Str(<<"Bob">>), Ref(2)} : HostReplace(key, value)
    \/ HostSetNested(Str(<<"Bob">>))
    \/ Finish("value", "none")

SpecLive == InitLive /\ [][NextLive]_vars

\* C26: whatever the host changed before, a guest read of a key gives the current
\* content of M[key]
C26_ReadsAreCurrent ==
    (cb.op = "read" /\ cb.known) => cb.ret = cb.current

-----------------------------------------------------------------------------
(* The synchronous invoke, called with and without a running event loop *)

\* the thread that calls invoke and the worker thread of the tool's executor
Caller == "t1"
Worker == "t2"

SyncStep ==
    /\ ops < MaxOps /\ ops' = ops + 1
    /\ UNCHANGED <<impl, heap, held, logs, seen, released, owner, lastOp,
                   registry, ct, fd, ws, rt, cb>>

\* what invoke hands to the executor before it runs the script itself:
\* quickjs_tool_thread.py submits _execute_in_thread when asyncio.get_running_loop()
\* finds a loop, and never waits for it; quickjs_tool.py submits nothing
submitted(variant, loop, ctx) ==
    IF variant = "thread" /\ loop THEN {[ctx |-> ctx]} ELSE {}

\* tool.invoke(code=..., context=ctx) in the calling thread, up to its evaluation
SyncInvoke(loop, ctx) ==
    /\ ~inv.active /\ SyncStep
    /\ LET k == CtxKey(impl, Caller)
           b == begin_invoke(impl, interp[k], mgr, heap, "toolA", ctx, uuids)
       IN  /\ interp' = [interp EXCEPT ![k] = b.ip]
           /\ mgr' = b.mgr
           /\ uuids' = b.drawn
           /\ inv' = [active |-> TRUE, t |-> Caller, tool_name |-> "toolA", ctx |-> ctx,
                      var_name |-> b.var_name, ctx_id |-> b.obj_id, sink |-> FALSE]
           /\ sy' = [sy EXCEPT !.calls = @ + 1,
                               !.with_context = IF ContextGiven(heap, ctx) THEN @ + 1 ELSE @,
                               !.exposes = IF b.obj_id # Nil THEN @ + 1 ELSE @,
                               !.jobs = @ \cup submitted(impl, loop, ctx)]

\* the evaluation in the calling thread ends and the finally block runs
SyncReturn ==
    /\ inv.active /\ SyncStep
    /\ LET e == end_invoke(impl, interp[Cur], mgr, inv.var_name)
       IN  /\ interp' = [interp EXCEPT ![Cur] = e.ip]
           /\ mgr' = e.mgr
    /\ inv' = NoInv
    /\ sy' = [sy EXCEPT !.evals = @ + 1]
    /\ UNCHANGED uuids

\* a worker thread of the executor runs a submitted _execute_in_thread: it exposes
\* the context in its own interpreter, evaluates the script and cleans up
WorkerRun(job) ==
    /\ job \in sy.jobs /\ SyncStep
    /\ LET k == CtxKey(impl, Worker)
           b == begin_invoke(impl, interp[k], mgr, heap, "toolA", job.ctx, uuids)
           e == end_invoke(impl, b.ip, b.mgr, b.var_name)
       IN  /\ interp' = [interp EXCEPT ![k] = e.ip]
           /\ mgr' = e.mgr
           /\ uuids' = b.drawn
           /\ sy' = [sy EXCEPT !.evals = @ + 1,
                               !.exposes = IF b.obj_id # Nil THEN @ + 1 ELSE @,
                               !.jobs = @ \ {job}]
    /\ UNCHANGED inv

NextSync ==
    \/ \E loop \in BOOLEAN, ctx \in {0, 1, 2} : SyncInvoke(loop, ctx)
    \/ SyncReturn
    \/ \E job \in sy.jobs : WorkerRun(job)

SpecSync == Init /\ [][NextSync]_vars

\* C27: each call of the synchronous invoke evaluates the script once and exposes
\* its context once, with or without a running event loop
C27_InvokeRunsOnce ==
    /\ sy.evals <= sy.calls
    /\ sy.exposes <= sy.with_context
    /\ (~inv.active /\ sy.jobs = {}) => sy.evals = sy.calls /\ sy.exposes = sy.with_context

-----------------------------------------------------------------------------
(* Invocations on one tool instance while another invocation is evaluating *)

\* a whole invocation of the same tool instance on thread t, with context ctx, runs
\* while the invocation inv is evaluating: on the evaluating thread it is the
\* invoke that callTool("quickjs", {code, context}) makes (_call_tool runs
\* tool.invoke(**args) inside the guest's call), on another thread it is a
\* concurrent caller.  Its own script does nothing with its context.
OtherInvoke(t, ctx) ==
    /\ inv.active /\ Step
    /\ "quickjs" \in registry
    /\ LET k == CtxKey(impl, t)
           b == begin_invoke(impl, interp[k], mgr, heap, "toolB", ctx, uuids)
           e == end_invoke(impl, b.ip, b.mgr, b.var_name)
       IN  /\ interp' = [interp EXCEPT ![k] = e.ip]
           /\ mgr' = e.mgr
           /\ uuids' = b.drawn
    /\ lastOp' = [op |-> IF t = inv.t THEN "nested" ELSE "concurrent"]
    /\ UNCHANGED <<impl, heap, inv, held, logs, seen, released, owner>>

NextNested ==
    \/ \E t \in Threads, ctx \in HostMappings \cup {0} : Invoke(t, "toolA", ctx, FALSE)
    \/ \E t \in Threads, ctx \in HostMappings \cup {0} : OtherInvoke(t, ctx)
    \/ \E id \in GuestIds, value \in GuestVals : GuestSet(id, "name", value)
    \/ Finish("value", "none")

SpecNested == Init /\ [][NextNested]_vars

\* C28: while an invocation that was given a context is evaluating, the guest
\* variable context names a registered handle that is backed by that invocation's
\* own mapping
C28_ContextStaysBound ==
    (inv.active /\ inv.ctx_id # Nil) =>
        /\ ContextName \in DOMAIN interp[Cur].globals
        /\ has_proxy(mgr, interp[Cur].globals[ContextName])
        /\ mgr.proxies[interp[Cur].globals[ContextName]].data = inv.ctx

-----------------------------------------------------------------------------
(* Scripts that write to their context and then fail *)

ThrowStep ==
    /\ inv.active /\ inv.ctx_id # Nil
    /\ ops < MaxOps /\ ops' = ops + 1
    /\ UNCHANGED <<impl, uuids, held, logs, seen, released, owner,
                   registry, ct, fd, ws, rt, sy>>

\* the mapping the caller passed, as the writes of the running script so far
\* should have left it
Expected == IF cb.op = "write" /\ cb.ctx = inv.ctx THEN cb.expected ELSE heap[inv.ctx]

\* the script evaluates  context.<key> = value
ScriptWrite(key, value) ==
    /\ ThrowStep
    /\ heap' = js_dict_set(mgr, heap, interp[Cur].globals[ContextName], key, value)
    /\ cb' = [op |-> "write", ctx |-> inv.ctx, expected |-> DictSet(Expected, key, value)]
    /\ UNCHANGED <<mgr, interp, inv, lastOp>>

\* the script evaluates  delete context.<key>
ScriptDelete(key) ==
    /\ ThrowStep
    /\ heap' = js_dict_delete(mgr, heap, interp[Cur].globals[ContextName], key).heap
    /\ cb' = [op |-> "write", ctx |-> inv.ctx, expected |-> DictDel(Expected, key)]
    /\ UNCHANGED <<mgr, interp, inv, lastOp>>

\* the script throws: ctx.eval raises, the except clauses convert the exception
\* and the finally block releases the context
ScriptThrow(ev, exc) ==
    /\ ThrowStep
    /\ exc \in RaisedBy(ev)
    /\ LET e == end_invoke(impl, interp[Cur], mgr, inv.var_name)
       IN  /\ interp' = [interp EXCEPT ![Cur] = e.ip]
           /\ mgr' = e.mgr
    /\ lastOp' = [op |-> convert_outcome(exc, ev)[1], ctx_id |-> inv.ctx_id,
                  interp |-> Cur, failure |-> ev, outcome |-> convert_outcome(exc, ev),
                  async_outcome |-> ainvoke_outcome(impl, exc, ev)]
    /\ cb' = [op |-> "thrown", ctx |-> inv.ctx, expected |-> Expected,
              wrote |-> cb.op = "write" /\ cb.ctx = inv.ctx,
              outcome |-> convert_outcome(exc, ev)]
    /\ inv' = NoInv
    /\ UNCHANGED heap

NextThrow ==
    \/ \E t \in Threads, ctx \in HostMappings : Invoke(t, "toolA", ctx, FALSE)
    \/ \E key \in {"name", "city"}, value \in GuestVals : ScriptWrite(key, value)
    \/ \E key \in {"name", "a"} : ScriptDelete(key)
    \/ \E ev \in {"runtime", "callback"} : \E exc \in RaisedBy(ev) : ScriptThrow(ev, exc)
    \/ Finish("value", "none")

SpecThrow == Init /\ [][NextThrow]_vars

\* C29: when a script has written to its context and then throws, the invocation
\* raises, and the caller's mapping is what it was with exactly those writes applied
C29_WritesSurviveFailure ==
    cb.op = "thrown" =>
        /\ cb.outcome[1] = "raise"
        /\ heap[cb.ctx] = cb.expected

C29_Witness ==
    /\ cb.op = "thrown" /\ cb.wrote /\ cb.outcome[1] = "raise"
    /\ heap[cb.ctx] # InitHeap[cb.ctx]
    /\ heap[cb.ctx] = cb.expected

-----------------------------------------------------------------------------
(* fill_default_args and the objects its result shares with the schema *)

\* "result[param_name] = param_schema["default"]": the filled-in value of a missing
\* parameter is the schema's default object itself, not a copy of it
shares_default(tool_schema, tool_args, param) ==
    /\ ~Falsy(tool_schema) /\ IsDict(tool_args)
    /\ ~Falsy(SchemaGet(tool_schema[2], "properties"))
    /\ param \in DOMAIN SchemaGet(tool_schema[2], "properties")[2]
    /\ param \notin DOMAIN tool_args[2]
    /\ "default" \in DOMAIN SchemaGet(tool_schema[2], "properties")[2][param][2]

\* obj[key] = value on a dict object
set_item(obj, key, value) == PyDict(DictSet(obj[2], key, value))

\* the schema after  schema["properties"][param]["default"][key] = value
set_default_item(tool_schema, param, key, value) ==
    LET props == tool_schema[2]["properties"]
        prop == props[2][param]
    IN  PyDict(DictSet(tool_schema[2], "properties",
            PyDict(DictSet(props[2], param,
                PyDict(DictSet(prop[2], "default", set_item(prop[2]["default"], key, value)))))))

ShareFrame ==
    UNCHANGED <<impl, heap, mgr, interp, uuids, inv, held, logs, seen, released,
                owner, ops, lastOp, registry, ct, ws, rt, cb, sy>>

\* the first call: filled = fill_default_args(schema, args)
ShareFill(schema, args) ==
    /\ ~fd.applied
    /\ fill_default_args(schema, args)[1] = "ok"
    /\ fd' = [applied |-> TRUE, phase |-> "filled", given |-> schema, schema |-> schema,
              args |-> args, first |-> fill_default_args(schema, args)[2],
              filled |-> fill_default_args(schema, args)[2]]
    /\ ShareFrame

\* the caller, or the invoked tool's script through context.args, changes a dict
\* valued argument of the result in place:  filled[param][key] = value.  When that
\* dict is the schema's default object, the schema sees the change as well.
ShareMutate(param, key, value) ==
    /\ fd.applied /\ fd.phase = "filled"
    /\ IsDict(fd.filled) /\ param \in DOMAIN fd.filled[2] /\ IsDict(fd.filled[2][param])
    /\ fd' = [fd EXCEPT !.phase = "mutated",
                        !.filled = set_item(@, param, set_item(@[2][param], key, value)),
                        !.schema = IF shares_default(fd.schema, fd.args, param)
                                   THEN set_default_item(@, param, key, value)
                                   ELSE @]
    /\ ShareFrame

\* a later call with the same schema object and the same input
ShareRefill ==
    /\ fd.applied /\ fd.phase = "mutated"
    /\ fd' = [applied |-> TRUE, phase |-> "refilled", given |-> fd.given,
              schema |-> fd.schema, args |-> fd.args, first |-> fd.first,
              filled |-> fd.filled, again |-> fill_default_args(fd.schema, fd.args)]
    /\ ShareFrame

NextShare ==
    \/ \E schema \in Schemas, args \in ArgMappings : ShareFill(schema, args)
    \/ \E key \in {"a", "b"} : ShareMutate("options", key, PyInt(9))
    \/ ShareRefill

SpecShare == InitFill /\ [][NextShare]_vars

\* C30: after a filled-in default object of the result was changed, the schema is
\* what it was and a later fill with the same schema and input gives what the
\* first call gave
C30_DefaultsIndependentOfSchema ==
    (fd.applied /\ fd.phase = "refilled") =>
        /\ fd.schema = fd.given
        /\ fd.again = Ok(fd.first)

====
